---- MODULE Spec2Model ----
(***************************************************************************)
(* The grid editor of Mermaid-Layout (src/src/editor_prototype.py): the    *)
(* occupancy grid, its seeding from the persisted JSON file, the click     *)
(* handler that cycles one cell, and the event loop with its key commands. *)
(* The JSON codec (src.grid_api) and the overlay's cell lookup are not in  *)
(* the sources at hand; they are modelled after the specification.         *)
(***************************************************************************)
EXTENDS Integers, Sequences, FiniteSets, TLC

VARIABLES
    calib,          \* overlay/gps_overlay.json: [exists, grid_rows, grid_cols]
    snapshot,       \* snapshot_raw.png: "missing", "unreadable" or "ok"
    fetches,        \* calls of fetch_axis_snapshot so far, over all runs
    runs,           \* how many times the program has been started
    query,          \* the last call of a client of the query API:
                    \* [fn, result, out, raised]
    overlay,        \* the GPSOverlay: [grid_rows, grid_cols]
    file,           \* the grid file at DEFAULT_GRID_PATH: [exists, text]
    persisted,      \* run_editor's persisted: what load_grid returned
    grid,           \* state.grid, a sequence of rows
    grid_path,      \* state.grid_path
    pc,             \* "main", "start" (run_editor entered), "poll" (in waitKey),
                    \* "done", or the exception that ended the run
    display,        \* what display_frame shows: the overlays drawn at the loop's top
    image,          \* cell states in snapshot_rectified_with_grid.png
    is_fullscreen,  \* the local is_fullscreen
    window,         \* "none", "open", "destroyed"
    console,        \* what the last handled click printed: <<>> or
                    \* <<update line, grid snapshot>>
    raised,         \* a call of _handle_mouse has raised KeyError
    hist            \* history: per cell, the values it has held since seeding

vars == <<calib, snapshot, fetches, runs, query, overlay, file, persisted, grid,
          grid_path, pc, display, image, is_fullscreen, window, console, raised,
          hist>>

\* what the event loop leaves alone: the calibration, the snapshot, the
\* camera, the clients of the query API
env == <<calib, snapshot, fetches, runs, query>>

(***************************************************************************)
(* Bounds of the model.                                                    *)
(***************************************************************************)
MaxDim == 2         \* seeding: grid_rows and grid_cols range over 1..MaxDim
MaxPLen == 2        \* seeding: persisted grids have at most MaxPLen rows of at most MaxPLen cells
MaxClicks == 3      \* event loop: cell updates in one run
MaxRuns == 2        \* restarts: how many times the program is started
MaxMarked == 3      \* query API: cells of a queried grid that are not FREE

(***************************************************************************)
(* Cell states (src.grid_api) and the library's event and key codes.       *)
(***************************************************************************)
FREE == 0
OBSTACLE == 1
HOME == 2

CellStates == {FREE, OBSTACLE, HOME}

EVENT_MOUSEMOVE == 0
EVENT_LBUTTONDOWN == 1
EVENT_RBUTTONDOWN == 2

ord_q == 113
ord_s == 115
ord_i == 105
ord_f == 102

DEFAULT_GRID_PATH == "grid.json"

Min(a, b) == IF a < b THEN a ELSE b

(***************************************************************************)
(* JSON text of a grid: a sequence of characters.                          *)
(***************************************************************************)
DigitChars == <<"0", "1", "2", "3", "4", "5", "6", "7", "8", "9">>

IsDigit(ch) == \E d \in 1..10 : DigitChars[d] = ch

DigitVal(ch) == (CHOOSE d \in 1..10 : DigitChars[d] = ch) - 1

RECURSIVE DumpNat(_)
DumpNat(n) ==
    IF n < 10 THEN <<DigitChars[n + 1]>>
    ELSE DumpNat(n \div 10) \o <<DigitChars[(n % 10) + 1]>>

DumpInt(n) == IF n < 0 THEN <<"-">> \o DumpNat(-n) ELSE DumpNat(n)

RECURSIVE DumpRowItems(_, _)
DumpRowItems(row, i) ==
    IF i > Len(row) THEN <<>>
    ELSE (IF i > 1 THEN <<",", " ">> ELSE <<>>) \o DumpInt(row[i])
         \o DumpRowItems(row, i + 1)

DumpRow(row) == <<"[">> \o DumpRowItems(row, 1) \o <<"]">>

RECURSIVE DumpGridItems(_, _)
DumpGridItems(g, i) ==
    IF i > Len(g) THEN <<>>
    ELSE (IF i > 1 THEN <<",", " ">> ELSE <<>>) \o DumpRow(g[i])
         \o DumpGridItems(g, i + 1)

\* json.dumps of a list of lists of integers
dumps(g) == <<"[">> \o DumpGridItems(g, 1) \o <<"]">>

ParseFail == [ok |-> FALSE, val |-> <<>>, next |-> 0]

At(s, i) == IF i >= 1 /\ i <= Len(s) THEN s[i] ELSE "EOF"

RECURSIVE SkipWs(_, _)
SkipWs(s, i) == IF At(s, i) = " " THEN SkipWs(s, i + 1) ELSE i

RECURSIVE ParseDigits(_, _, _)
ParseDigits(s, i, acc) ==
    IF IsDigit(At(s, i)) THEN ParseDigits(s, i + 1, acc * 10 + DigitVal(s[i]))
    ELSE [val |-> acc, next |-> i]

ParseInt(s, i) ==
    LET neg == At(s, i) = "-"
        j == IF neg THEN i + 1 ELSE i
        r == ParseDigits(s, j, 0)
    IN  IF r.next = j THEN ParseFail
        ELSE [ok |-> TRUE, val |-> IF neg THEN 0 - r.val ELSE r.val, next |-> r.next]

RECURSIVE ParseRowItems(_, _, _)
ParseRowItems(s, i, acc) ==
    LET r == ParseInt(s, i)
        j == SkipWs(s, r.next)
    IN  IF ~r.ok THEN ParseFail
        ELSE IF At(s, j) = "," THEN ParseRowItems(s, SkipWs(s, j + 1), Append(acc, r.val))
        ELSE IF At(s, j) = "]" THEN [ok |-> TRUE, val |-> Append(acc, r.val), next |-> j + 1]
        ELSE ParseFail

ParseRow(s, i) ==
    IF At(s, i) # "[" THEN ParseFail
    ELSE LET j == SkipWs(s, i + 1)
         IN  IF At(s, j) = "]" THEN [ok |-> TRUE, val |-> <<>>, next |-> j + 1]
             ELSE ParseRowItems(s, j, <<>>)

RECURSIVE ParseGridItems(_, _, _)
ParseGridItems(s, i, acc) ==
    LET r == ParseRow(s, i)
        j == SkipWs(s, r.next)
    IN  IF ~r.ok THEN ParseFail
        ELSE IF At(s, j) = "," THEN ParseGridItems(s, SkipWs(s, j + 1), Append(acc, r.val))
        ELSE IF At(s, j) = "]" THEN [ok |-> TRUE, val |-> Append(acc, r.val), next |-> j + 1]
        ELSE ParseFail

\* json.loads of a text holding a list of lists of integers
loads(s) ==
    LET i == SkipWs(s, 1)
        j == SkipWs(s, i + 1)
        r == IF At(s, i) # "[" THEN ParseFail
             ELSE IF At(s, j) = "]" THEN [ok |-> TRUE, val |-> <<>>, next |-> j + 1]
             ELSE ParseGridItems(s, j, <<>>)
    IN  IF r.ok /\ SkipWs(s, r.next) = Len(s) + 1 THEN r ELSE ParseFail

\* grid_api.load_grid: a missing or unparsable file is an empty grid
load_grid(f) ==
    IF ~f.exists THEN <<>>
    ELSE LET r == loads(f.text) IN IF r.ok THEN r.val ELSE <<>>

\* grid_api.save_grid: the file is overwritten with the grid's JSON text
save_grid(g) == [exists |-> TRUE, text |-> dumps(g)]


(***************************************************************************)
(* _seed_grid: a rows x cols grid of FREE, overwritten cell by cell with   *)
(* the persisted values that fit.                                          *)
(***************************************************************************)
\* int(v) of a JSON integer
int(v) == v

RECURSIVE SeedCols(_, _, _, _, _)
SeedCols(seeded, row_idx, row, col_idx, max_col) ==
    IF col_idx >= max_col THEN seeded
    ELSE SeedCols([seeded EXCEPT ![row_idx + 1][col_idx + 1] = int(row[col_idx + 1])],
                  row_idx, row, col_idx + 1, max_col)

RECURSIVE SeedRows(_, _, _, _, _)
SeedRows(seeded, cols, p, row_idx, max_row) ==
    IF row_idx >= max_row THEN seeded
    ELSE LET row == p[row_idx + 1]
             max_col == Min(cols, Len(row))
         IN  SeedRows(SeedCols(seeded, row_idx, row, 0, max_col),
                      cols, p, row_idx + 1, max_row)

\* seeding whose column loop starts at the second column
_seed_grid_skips_first(rows, cols, p) ==
    [r \in 1..rows |-> [c \in 1..cols |->
        IF r <= Len(p) /\ c <= Len(p[r]) /\ c > 1 THEN p[r][c] ELSE FREE]]

\* seeding that copies a persisted row whole when it is longer than cols
_seed_grid_unclipped(rows, cols, p) ==
    [r \in 1..rows |->
        IF r <= Len(p) /\ Len(p[r]) > cols THEN p[r]
        ELSE [c \in 1..cols |-> IF r <= Len(p) /\ c <= Len(p[r]) THEN p[r][c] ELSE FREE]]

\* seeding whose default cell is OBSTACLE
_seed_grid_default_obstacle(rows, cols, p) ==
    [r \in 1..rows |-> [c \in 1..cols |->
        IF r <= Len(p) /\ c <= Len(p[r]) THEN p[r][c] ELSE OBSTACLE]]

_seed_grid(rows, cols, p) ==
    LET seeded == [r \in 1..rows |-> [c \in 1..cols |-> FREE]]
        max_row == Min(rows, Len(p))
    IN  SeedRows(seeded, cols, p, 0, max_row)

(***************************************************************************)
(* The overlay's geometry: the arena starts at arena_bounds.left/top of    *)
(* the rectified canvas, the image at offset_info; cells are cell_px wide. *)
(***************************************************************************)
offset_info == [offset_x |-> 1, offset_y |-> 2]

cell_px == [w |-> 2, h |-> 1]

arena_bounds(ov) ==
    [left |-> 1, top |-> 2,
     right |-> 1 + cell_px.w * ov.grid_cols, bottom |-> 2 + cell_px.h * ov.grid_rows]

\* overlay.get_grid_cell_from_rectified
get_grid_cell_from_rectified(ov, x_canvas, y_canvas) ==
    LET b == arena_bounds(ov)
        inb == /\ x_canvas >= b.left /\ x_canvas < b.right
               /\ y_canvas >= b.top /\ y_canvas < b.bottom
    IN  [in_bounds |-> inb,
         row |-> IF inb THEN (y_canvas - b.top) \div cell_px.h ELSE -1,
         col |-> IF inb THEN (x_canvas - b.left) \div cell_px.w ELSE -1]

None == <<>>

\* _rectified_to_grid_cell: None, or <<row, col>> (0-based)
_rectified_to_grid_cell(x, y, ov) ==
    LET x_canvas == x + offset_info.offset_x
        y_canvas == y + offset_info.offset_y
        cell_info == get_grid_cell_from_rectified(ov, x_canvas, y_canvas)
    IN  IF ~cell_info.in_bounds THEN None
        ELSE <<cell_info.row, cell_info.col>>

(***************************************************************************)
(* _handle_mouse                                                           *)
(***************************************************************************)
\* the keys of the lookup table of _handle_mouse; any other value is a KeyError
CycleKeys == {FREE, OBSTACLE, HOME}

\* the table with OBSTACLE sent back to FREE
updated_value_skips_home(current) ==
    CASE current = FREE -> OBSTACLE
      [] current = OBSTACLE -> FREE
      [] current = HOME -> FREE

\* the table with HOME sent to OBSTACLE
updated_value_no_return(current) ==
    CASE current = FREE -> OBSTACLE
      [] current = OBSTACLE -> HOME
      [] current = HOME -> OBSTACLE

\* the lookup table of _handle_mouse
updated_value(current) ==
    CASE current = FREE -> OBSTACLE
      [] current = OBSTACLE -> HOME
      [] current = HOME -> FREE

\* the cells of a grid, 1-based
\* DISPLAY_SYMBOL, the table from cell states to printable symbols
DISPLAY_SYMBOL == [cell \in {FREE, OBSTACLE, HOME} |->
                      IF cell = FREE THEN "." ELSE IF cell = OBSTACLE THEN "#" ELSE "H"]

\* ANSI colour codes
GREEN == "ESC[92m"
ORANGE == "ESC[93m"
RESET == "ESC[0m"

\* a printed string is the sequence of its pieces: colour codes, symbols,
\* separators
colored_symbol(cell) ==
    LET symbol == IF cell \in DOMAIN DISPLAY_SYMBOL THEN DISPLAY_SYMBOL[cell] ELSE "?"
    IN  IF symbol = "H" THEN <<GREEN, symbol, RESET>>
        ELSE IF symbol = "X" THEN <<ORANGE, symbol, RESET>>
        ELSE <<symbol>>

format_cell(cell) == colored_symbol(cell)

\* sep.join(parts)
RECURSIVE join(_, _)
join(sep, parts) ==
    IF Len(parts) = 0 THEN <<>>
    ELSE IF Len(parts) = 1 THEN parts[1]
    ELSE parts[1] \o <<sep>> \o join(sep, Tail(parts))

_format_grid_snapshot(g) ==
    join("\n", [r \in DOMAIN g |->
                    join(" ", [c \in DOMAIN g[r] |-> format_cell(g[r][c])])])

Cells(g) == UNION {{<<r, c>> : c \in DOMAIN g[r]} : r \in DOMAIN g}

RECURSIVE SumClicks(_, _)
SumClicks(h, S) ==
    IF S = {} THEN 0
    ELSE LET rc == CHOOSE e \in S : TRUE
         IN  (Len(h[rc[1]][rc[2]]) - 1) + SumClicks(h, S \ {rc})

\* in-bounds left clicks that have updated a cell
Clicks == SumClicks(hist, Cells(hist))

MouseEvents == {EVENT_MOUSEMOVE, EVENT_LBUTTONDOWN, EVENT_RBUTTONDOWN}

MouseXs == -1 .. (cell_px.w * overlay.grid_cols)
MouseYs == -1 .. (cell_px.h * overlay.grid_rows)

\* the handler on a grid whose rows are one shared list: the click shows in
\* every row
_handle_mouse_aliased(event, x, y) ==
    /\ pc = "poll"
    /\ event = EVENT_LBUTTONDOWN
    /\ _rectified_to_grid_cell(x, y, overlay) # None
    /\ LET col == _rectified_to_grid_cell(x, y, overlay)[2]
           row == _rectified_to_grid_cell(x, y, overlay)[1]
           current == grid[row + 1][col + 1]
       IN  /\ current \in CycleKeys
           /\ Clicks < MaxClicks
           /\ grid' = [r \in DOMAIN grid |->
                          [grid[r] EXCEPT ![col + 1] = updated_value(current)]]
           /\ hist' = [hist EXCEPT ![row + 1][col + 1] =
                           Append(@, updated_value(current))]
    /\ UNCHANGED <<env, console, overlay, persisted, file, grid_path, pc, display, image,
                   is_fullscreen, window, raised>>

\* the handler reacting to every button press, not to the left one only
_handle_mouse_any_button(event, x, y) ==
    /\ pc = "poll"
    /\ UNCHANGED <<env, overlay, persisted, file, grid_path, pc, display, image,
                   is_fullscreen, window>>
    /\ IF event = EVENT_MOUSEMOVE
       THEN UNCHANGED <<grid, hist, console, raised>>
       ELSE LET cell_pos == _rectified_to_grid_cell(x, y, overlay) IN
            IF cell_pos = None
            THEN UNCHANGED <<grid, hist, console, raised>>
            ELSE LET row == cell_pos[1]
                     col == cell_pos[2]
                     current == grid[row + 1][col + 1]
                 IN  IF current \notin CycleKeys
                     THEN /\ raised' = TRUE
                          /\ UNCHANGED <<grid, hist, console>>
                     ELSE /\ Clicks < MaxClicks
                          /\ grid' = [grid EXCEPT ![row + 1][col + 1] =
                                          updated_value(current)]
                          /\ hist' = [hist EXCEPT ![row + 1][col + 1] =
                                          Append(@, updated_value(current))]
                          /\ console' = <<<<row, col, colored_symbol(updated_value(current))>>,
                                          _format_grid_snapshot(grid')>>
                          /\ UNCHANGED raised

\* the handler keeping at most one HOME: a cell that becomes HOME frees
\* the cells that were HOME
_handle_mouse_single_home(event, x, y) ==
    /\ pc = "poll"
    /\ UNCHANGED <<env, overlay, persisted, file, grid_path, pc, display, image,
                   is_fullscreen, window>>
    /\ IF event # EVENT_LBUTTONDOWN
       THEN UNCHANGED <<grid, hist, console, raised>>
       ELSE LET cell_pos == _rectified_to_grid_cell(x, y, overlay) IN
            IF cell_pos = None
            THEN UNCHANGED <<grid, hist, console, raised>>
            ELSE LET row == cell_pos[1]
                     col == cell_pos[2]
                     current == grid[row + 1][col + 1]
                 IN  IF current \notin CycleKeys
                     THEN /\ raised' = TRUE
                          /\ UNCHANGED <<grid, hist, console>>
                     ELSE /\ Clicks < MaxClicks
                          /\ grid' = [r \in DOMAIN grid |-> [c \in DOMAIN grid[r] |->
                                          IF r = row + 1 /\ c = col + 1
                                          THEN updated_value(current)
                                          ELSE IF updated_value(current) = HOME
                                                  /\ grid[r][c] = HOME
                                          THEN FREE ELSE grid[r][c]]]
                          /\ hist' = [hist EXCEPT ![row + 1][col + 1] =
                                          Append(@, updated_value(current))]
                          /\ console' = <<<<row, col, colored_symbol(updated_value(current))>>,
                                          _format_grid_snapshot(grid')>>
                          /\ UNCHANGED raised

_handle_mouse(event, x, y) ==
    /\ pc = "poll"
    /\ UNCHANGED <<env, overlay, persisted, file, grid_path, pc, display, image,
                   is_fullscreen, window>>
    /\ IF event # EVENT_LBUTTONDOWN
       THEN UNCHANGED <<grid, hist, console, raised>>
       ELSE LET cell_pos == _rectified_to_grid_cell(x, y, overlay) IN
            IF cell_pos = None
            THEN UNCHANGED <<grid, hist, console, raised>>
            ELSE LET row == cell_pos[1]
                     col == cell_pos[2]
                     current == grid[row + 1][col + 1]
                 IN  IF current \notin CycleKeys
                     THEN /\ raised' = TRUE
                          /\ UNCHANGED <<grid, hist, console>>
                     ELSE /\ Clicks < MaxClicks
                          /\ grid' = [grid EXCEPT ![row + 1][col + 1] =
                                          updated_value(current)]
                          /\ hist' = [hist EXCEPT ![row + 1][col + 1] =
                                          Append(@, updated_value(current))]
                          /\ console' = <<<<row, col, colored_symbol(updated_value(current))>>,
                                          _format_grid_snapshot(grid')>>
                          /\ UNCHANGED raised

HandleMouse == \E event \in MouseEvents, x \in MouseXs, y \in MouseYs :
                   _handle_mouse(event, x, y)

(***************************************************************************)
(* The query API (api/layout-api.py) and its clients                       *)
(***************************************************************************)
get_map_json(f) == load_grid(f)

\* the symbols the clients pass to the API
custom_symbols == [cell \in CellStates |->
                      IF cell = FREE THEN "." ELSE IF cell = OBSTACLE THEN "#" ELSE "H"]

\* a copy of the grid with each cell replaced by its symbol
SymbolMap(g, symbols) ==
    [r \in DOMAIN g |-> [c \in DOMAIN g[r] |-> symbols[g[r][c]]]]

get_map(f, symbols) == SymbolMap(load_grid(f), symbols)

\* the rows joined by newlines, the cells of a row by the separator
MapString(m, cell_separator) ==
    join("\n", [r \in DOMAIN m |->
                    join(cell_separator, [c \in DOMAIN m[r] |-> <<m[r][c]>>])])

get_map_as_string(f, symbols, cell_separator) ==
    MapString(get_map(f, symbols), cell_separator)

RECURSIVE CountInRow(_, _)
CountInRow(row, v) ==
    IF Len(row) = 0 THEN 0
    ELSE (IF Head(row) = v THEN 1 ELSE 0) + CountInRow(Tail(row), v)

RECURSIVE CountInGrid(_, _)
CountInGrid(g, v) ==
    IF Len(g) = 0 THEN 0
    ELSE CountInRow(Head(g), v) + CountInGrid(Tail(g), v)

\* the statistics of a grid
MapInfo(g) ==
    LET rows == Len(g)
        cols == IF rows > 0 THEN Len(g[1]) ELSE 0
    IN  [rows |-> rows,
         cols |-> cols,
         total_cells |-> rows * cols,
         free_count |-> CountInGrid(g, FREE),
         obstacle_count |-> CountInGrid(g, OBSTACLE),
         home_count |-> CountInGrid(g, HOME)]

get_map_info(f) == MapInfo(load_grid(f))

\* f"{(count / total) * 100:.1f}": the nearest tenth, a tie going to the even
\* one, as its text
PctTenths(count, total) ==
    LET q == (count * 1000) \div total
        r == (count * 1000) % total
    IN  IF 2 * r < total THEN q
        ELSE IF 2 * r > total THEN q + 1
        ELSE IF q % 2 = 0 THEN q ELSE q + 1

\* the percentage cut off after the first decimal
fmt_1f_truncated(count, total) ==
    LET t == (count * 1000) \div total
    IN  DumpNat(t \div 10) \o <<".">> \o DumpNat(t % 10)

fmt_1f(count, total) ==
    LET t == PctTenths(count, total)
    IN  DumpNat(t \div 10) \o <<".">> \o DumpNat(t % 10)

NoQuery == [fn |-> "none", result |-> <<>>, out |-> <<>>, raised |-> FALSE]

\* the cells of the file are cell states: the symbol of any other value is
\* not described
AllCellStates(g) == \A r \in DOMAIN g : \A c \in DOMAIN g[r] : g[r][c] \in CellStates

SymbolsDefined(f) == AllCellStates(load_grid(f))

\* what the callers do with what the API returned: the branch taken and the
\* numbers printed
JsonReport(json_data) ==
    [fn |-> "get_map_json",
     result |-> json_data,
     out |-> IF json_data # <<>>
             THEN <<"rows", Len(json_data), "cols", Len(json_data[1])>>
             ELSE <<"No JSON data found">>,
     raised |-> FALSE]

test_get_map_json ==
    /\ query' = JsonReport(get_map_json(file))
    /\ UNCHANGED <<calib, snapshot, fetches, runs, overlay, file, persisted, grid,
                   grid_path, pc, display, image, is_fullscreen, window, console,
                   raised, hist>>

MapReport(map_data) ==
    [fn |-> "get_map",
     result |-> map_data,
     out |-> IF map_data # <<>>
             THEN <<"First row", map_data[1]>>
             ELSE <<"No map data found">>,
     raised |-> FALSE]

test_get_map_custom_symbols ==
    /\ SymbolsDefined(file)
    /\ query' = MapReport(get_map(file, custom_symbols))
    /\ UNCHANGED <<calib, snapshot, fetches, runs, overlay, file, persisted, grid,
                   grid_path, pc, display, image, is_fullscreen, window, console,
                   raised, hist>>

StringReport(map_str) ==
    [fn |-> "get_map_as_string",
     result |-> map_str,
     out |-> IF map_str # <<>>
             THEN <<"Total lines",
                    1 + Cardinality({i \in DOMAIN map_str : map_str[i] = "\n"})>>
             ELSE <<"No map data found">>,
     raised |-> FALSE]

test_get_map_as_string_custom ==
    /\ SymbolsDefined(file)
    /\ query' = StringReport(get_map_as_string(file, custom_symbols, " "))
    /\ UNCHANGED <<calib, snapshot, fetches, runs, overlay, file, persisted, grid,
                   grid_path, pc, display, image, is_fullscreen, window, console,
                   raised, hist>>

\* the statistics printed without the test of total_cells: the division by
\* zero raises
InfoReport_unguarded(info) ==
    [fn |-> "get_map_info",
     result |-> info,
     out |-> IF info.total_cells # 0
             THEN <<fmt_1f(info.free_count, info.total_cells),
                    fmt_1f(info.obstacle_count, info.total_cells),
                    fmt_1f(info.home_count, info.total_cells)>>
             ELSE <<>>,
     raised |-> info.total_cells = 0]

InfoReport(info) ==
    [fn |-> "get_map_info",
     result |-> info,
     out |-> IF info.total_cells > 0
             THEN <<fmt_1f(info.free_count, info.total_cells),
                    fmt_1f(info.obstacle_count, info.total_cells),
                    fmt_1f(info.home_count, info.total_cells)>>
             ELSE <<>>,
     raised |-> FALSE]

test_get_map_info ==
    /\ query' = InfoReport(get_map_info(file))
    /\ UNCHANGED <<calib, snapshot, fetches, runs, overlay, file, persisted, grid,
                   grid_path, pc, display, image, is_fullscreen, window, console,
                   raised, hist>>

RawJsonReport(json_data) ==
    [fn |-> "get_map_json",
     result |-> json_data,
     out |-> IF json_data # <<>>
             THEN <<"rows", Len(json_data), "First row", json_data[1]>>
             ELSE <<"No JSON data found">>,
     raised |-> FALSE]

\* the raw-data example on an API that creates the grid file when there is
\* none
example_raw_json_creates ==
    /\ query' = RawJsonReport(get_map_json(file))
    /\ file' = IF file.exists THEN file ELSE save_grid(<<>>)
    /\ UNCHANGED <<calib, snapshot, fetches, runs, overlay, persisted, grid,
                   grid_path, pc, display, image, is_fullscreen, window, console,
                   raised, hist>>

example_raw_json ==
    /\ query' = RawJsonReport(get_map_json(file))
    /\ UNCHANGED <<calib, snapshot, fetches, runs, overlay, file, persisted, grid,
                   grid_path, pc, display, image, is_fullscreen, window, console,
                   raised, hist>>

(***************************************************************************)
(* main                                                                    *)
(***************************************************************************)
NoOverlay == [grid_rows |-> 0, grid_cols |-> 0]

\* main without the check of the calibration file: the overlay is built from
\* whatever is there
MainEntry_unchecked ==
    /\ pc = "main"
    /\ overlay' = [grid_rows |-> calib.grid_rows, grid_cols |-> calib.grid_cols]
    /\ pc' = "start"
    /\ UNCHANGED <<env, console, file, persisted, grid, grid_path, display, image,
                   is_fullscreen, window, raised, hist>>

\* main: FileNotFoundError when the calibration file is missing; otherwise
\* the overlay is built from it and run_editor is entered
MainEntry ==
    /\ pc = "main"
    /\ IF ~calib.exists
       THEN /\ pc' = "FileNotFoundError"
            /\ UNCHANGED overlay
       ELSE /\ overlay' = [grid_rows |-> calib.grid_rows, grid_cols |-> calib.grid_cols]
            /\ pc' = "start"
    /\ UNCHANGED <<env, console, file, persisted, grid, grid_path, display, image,
                   is_fullscreen, window, raised, hist>>

\* the program is started again: the files stay, the process starts afresh
Restart ==
    /\ pc \in {"done", "FileNotFoundError", "CameraError"}
    /\ runs < MaxRuns
    /\ runs' = runs + 1
    /\ pc' = "main"
    /\ overlay' = NoOverlay
    /\ persisted' = <<>>
    /\ grid' = <<>>
    /\ display' = <<>>
    /\ is_fullscreen' = FALSE
    /\ window' = "none"
    /\ console' = <<>>
    /\ raised' = FALSE
    /\ hist' = <<>>
    /\ UNCHANGED <<calib, snapshot, fetches, query, file, grid_path, image>>

(***************************************************************************)
(* run_editor                                                              *)
(***************************************************************************)
\* _draw_grid_overlay: what is painted over a cell
CellOverlay(cell_value) ==
    IF cell_value = FREE THEN "none"
    ELSE IF cell_value = OBSTACLE THEN "obstacle"
    ELSE "home"

_draw_grid_overlay(g) ==
    [r \in DOMAIN g |-> [c \in DOMAIN g[r] |-> CellOverlay(g[r][c])]]

\* fetching without writing the fetched frame to the snapshot path
_get_rectified_frame_unsaved(camera_answers) ==
    IF snapshot = "ok"
    THEN /\ UNCHANGED <<snapshot, fetches>>
    ELSE /\ fetches' = fetches + 1
         /\ UNCHANGED snapshot

\* _get_rectified_frame, as far as the snapshot and the camera go: the saved
\* snapshot is used when it can be read; otherwise the camera is asked, and
\* what it returns is written to the snapshot path. A failed fetch raises.
_get_rectified_frame(camera_answers) ==
    IF snapshot = "ok"
    THEN /\ UNCHANGED <<snapshot, fetches>>
    ELSE /\ fetches' = fetches + 1
         /\ snapshot' = IF camera_answers THEN "ok" ELSE snapshot

\* run_editor up to the first waitKey: load, seed, get the frame, open the
\* window, save the first frame, draw and show the frame
StartEditor ==
    /\ pc = "start"
    /\ persisted' = load_grid(file)
    /\ \E camera_answers \in BOOLEAN :
          /\ _get_rectified_frame(camera_answers)
          /\ IF snapshot # "ok" /\ ~camera_answers
             THEN /\ pc' = "CameraError"
                  /\ UNCHANGED <<grid, hist, image, display, grid_path, window,
                                 is_fullscreen>>
             ELSE /\ LET rows == overlay.grid_rows
                         cols == overlay.grid_cols
                         seeded == _seed_grid(rows, cols, persisted')
                     IN  /\ grid' = seeded
                         /\ hist' = [r \in DOMAIN seeded |->
                                        [c \in DOMAIN seeded[r] |-> <<seeded[r][c]>>]]
                         /\ image' = _draw_grid_overlay(seeded)
                         /\ display' = _draw_grid_overlay(seeded)
                  /\ grid_path' = DEFAULT_GRID_PATH
                  /\ window' = "open"
                  /\ is_fullscreen' = TRUE
                  /\ pc' = "poll"
    /\ UNCHANGED <<calib, runs, query, overlay, file, console, raised>>

\* what cv2.waitKey can return: no key, the four commands, another key, and
\* a command key with bits above the low byte set
KeyInputs == {-1, ord_q, ord_s, ord_i, ord_f, 120, ord_q + 256, ord_s + 256}

\* key = cv2.waitKey(1) & 0xFF
Masked(k) == k % 256

\* the loop's top for the next iteration: the frame is drawn from the grid
NextFrame ==
    /\ display' = _draw_grid_overlay(grid')
    /\ pc' = "poll"

\* quitting that saves the grid on the way out
KeyQuit_autosave ==
    /\ pc = "poll"
    /\ \E k \in KeyInputs : Masked(k) = ord_q
    /\ pc' = "done"
    /\ window' = "destroyed"
    /\ file' = save_grid(grid)
    /\ UNCHANGED <<env, console, overlay, persisted, grid, grid_path, display, image,
                   is_fullscreen, raised, hist>>

KeyQuit ==
    /\ pc = "poll"
    /\ \E k \in KeyInputs : Masked(k) = ord_q
    /\ pc' = "done"
    /\ window' = "destroyed"
    /\ UNCHANGED <<env, console, overlay, persisted, file, grid, grid_path, display, image,
                   is_fullscreen, raised, hist>>

\* saving the grid as it was seeded instead of state.grid
KeySave_seeded ==
    /\ pc = "poll"
    /\ \E k \in KeyInputs : Masked(k) = ord_s
    /\ file' = save_grid([r \in DOMAIN hist |-> [c \in DOMAIN hist[r] |-> hist[r][c][1]]])
    /\ UNCHANGED <<env, console, overlay, persisted, grid, grid_path, image, is_fullscreen,
                   window, raised, hist>>
    /\ NextFrame

KeySave ==
    /\ pc = "poll"
    /\ \E k \in KeyInputs : Masked(k) = ord_s
    /\ file' = IF grid_path = DEFAULT_GRID_PATH THEN save_grid(grid) ELSE file
    /\ UNCHANGED <<env, console, overlay, persisted, grid, grid_path, image, is_fullscreen,
                   window, raised, hist>>
    /\ NextFrame

\* an 'i' that leaves the loop after writing the image
KeyImage_breaks ==
    /\ pc = "poll"
    /\ \E k \in KeyInputs : Masked(k) = ord_i
    /\ image' = display
    /\ pc' = "done"
    /\ window' = "destroyed"
    /\ UNCHANGED <<env, console, overlay, persisted, file, grid, grid_path, display,
                   is_fullscreen, raised, hist>>

KeyImage ==
    /\ pc = "poll"
    /\ \E k \in KeyInputs : Masked(k) = ord_i
    /\ image' = display
    /\ UNCHANGED <<env, console, overlay, persisted, file, grid, grid_path, is_fullscreen,
                   window, raised, hist>>
    /\ NextFrame

KeyFullscreen ==
    /\ pc = "poll"
    /\ \E k \in KeyInputs : Masked(k) = ord_f
    /\ is_fullscreen' = ~is_fullscreen
    /\ UNCHANGED <<env, console, overlay, persisted, file, grid, grid_path, image,
                   window, raised, hist>>
    /\ NextFrame

KeyOther ==
    /\ pc = "poll"
    /\ \E k \in KeyInputs : Masked(k) \notin {ord_q, ord_s, ord_i, ord_f}
    /\ UNCHANGED <<env, console, overlay, persisted, file, grid, grid_path, image,
                   is_fullscreen, window, raised, hist>>
    /\ NextFrame

(***************************************************************************)
(* Initial states: the calibration's grid size and the grid file on disk.  *)
(***************************************************************************)
SeqsUpTo(S, n) == UNION {[1..k -> S] : k \in 0..n}

\* integers the grid files hold: a cell state and a value that is none
FileValues == {HOME, 12}

PersistedGrids == SeqsUpTo(SeqsUpTo(FileValues, MaxPLen), MaxPLen)

MissingFile == [exists |-> FALSE, text |-> <<>>]

\* files that are not a JSON list of lists: empty, cut short, not a list
CorruptFiles == {[exists |-> TRUE, text |-> t] :
                    t \in {<<>>, <<"[", "[", "1", ",">>, <<"{", "}">>}}

GridFiles == {MissingFile} \cup CorruptFiles \cup {save_grid(p) : p \in PersistedGrids}

\* the persisted grids the event loop is explored from: empty, one empty row,
\* smaller than the grid, ragged with a value outside the cell states, larger
\* than the grid, and a full grid with a negative value
EditorPersisted ==
    { <<>>,
      << <<>> >>,
      << <<HOME>> >>,
      << <<OBSTACLE, 12>>, <<HOME>> >>,
      << <<FREE, OBSTACLE, HOME>>, <<HOME, HOME, OBSTACLE>>, <<OBSTACLE>> >>,
      << <<-1, FREE>>, <<FREE, HOME>> >> }

EditorFiles ==
    {MissingFile, [exists |-> TRUE, text |-> <<"[", "[", "1", ",">>]}
        \cup {save_grid(p) : p \in EditorPersisted}

\* the calibrations the event loop is explored from
EditorOverlays == [grid_rows : {1, 2}, grid_cols : {1, 2}]

\* the calibrations seeding is checked for
SeedOverlays == [grid_rows : 1..MaxDim, grid_cols : 1..MaxDim]

MissingCalib == [exists |-> FALSE, grid_rows |-> 0, grid_cols |-> 0]

\* no calibration file, or one with the grid size of one of the overlays
Calibs(overlays) ==
    {MissingCalib} \cup
    {[exists |-> TRUE, grid_rows |-> ov.grid_rows, grid_cols |-> ov.grid_cols] :
        ov \in overlays}

Snapshots == {"missing", "unreadable", "ok"}

InitWith(overlays, files, snapshots) ==
    /\ calib \in Calibs(overlays)
    /\ snapshot \in snapshots
    /\ fetches = 0
    /\ runs = 1
    /\ query = NoQuery
    /\ overlay = NoOverlay
    /\ file \in files
    /\ persisted = <<>>
    /\ grid = <<>>
    /\ grid_path = DEFAULT_GRID_PATH
    /\ pc = "main"
    /\ display = <<>>
    /\ image = <<>>
    /\ is_fullscreen = FALSE
    /\ window = "none"
    /\ console = <<>>
    /\ raised = FALSE
    /\ hist = <<>>

\* the editor on a fresh checkout: no snapshot has been saved yet
Init == InitWith(EditorOverlays, EditorFiles, {"missing"})

Next ==
    \/ MainEntry
    \/ StartEditor
    \/ HandleMouse
    \/ KeyQuit
    \/ KeySave
    \/ KeyImage
    \/ KeyFullscreen
    \/ KeyOther

Spec == Init /\ [][Next]_vars

\* seeding alone, from every grid file within the bounds
InitSeed == InitWith(SeedOverlays, GridFiles, {"ok"})

NextSeed ==
    \/ MainEntry
    \/ StartEditor

SpecSeed == InitSeed /\ [][NextSeed]_vars

\* starting, quitting and starting again, from every state of the snapshot
InitRuns == InitWith(EditorOverlays, {MissingFile}, Snapshots)

NextRuns ==
    \/ MainEntry
    \/ StartEditor
    \/ KeyQuit
    \/ Restart

SpecRuns == InitRuns /\ [][NextRuns]_vars

\* the grids of R x C cells with at most MaxMarked cells OBSTACLE or HOME
MarkedGrids(R, C) ==
    UNION {{[r \in 1..R |-> [c \in 1..C |-> IF <<r, c>> \in S THEN f[<<r, c>>] ELSE FREE]] :
               f \in [S -> {OBSTACLE, HOME}]} :
           S \in {T \in SUBSET ((1..R) \X (1..C)) : Cardinality(T) <= MaxMarked}}

\* the sizes of the grids the query API is asked about, up to the 3 x 3 of
\* the documented example
QueryDims == {1, 2, 3}

\* the grid files the query API is asked about: none, corrupt ones, an empty
\* list, an empty row, a row with a value that is no cell state, and the
\* grids of cell states
QueryFiles ==
    {MissingFile} \cup CorruptFiles
        \cup {save_grid(p) : p \in {<<>>, << <<>> >>, << <<OBSTACLE, 12>> >>}}
        \cup {save_grid(p) : p \in UNION {MarkedGrids(R, C) : R \in QueryDims, C \in QueryDims}}

\* the clients of the query API on their own: no editor is set up
InitQuery == InitWith({}, QueryFiles, {"ok"})

NextQuery ==
    \/ test_get_map_json
    \/ test_get_map_custom_symbols
    \/ test_get_map_as_string_custom
    \/ test_get_map_info
    \/ example_raw_json

SpecQuery == InitQuery /\ [][NextQuery]_vars

\* the editor on a row of two cells and a client of the query API beside it
InitApi ==
    InitWith({[grid_rows |-> 1, grid_cols |-> 2]},
             {MissingFile, save_grid(<< <<HOME, OBSTACLE>> >>)}, {"ok"})

NextApi ==
    \/ MainEntry
    \/ StartEditor
    \/ HandleMouse
    \/ KeySave
    \/ KeyQuit
    \/ example_raw_json
    \/ test_get_map_info

SpecApi == InitApi /\ [][NextApi]_vars

(***************************************************************************)
(* Properties                                                              *)
(***************************************************************************)
Started == pc \in {"poll", "done"}

Last(h) == h[Len(h)]

\* the cyclic order FREE(0) -> OBSTACLE(1) -> HOME(2) -> FREE(0)
CycleSucc(v) == (v + 1) % 3

\* C1: a left click on an in-bounds cell holding FREE, OBSTACLE or HOME
\* replaces the cell's value with its successor in the cyclic order
\* FREE -> OBSTACLE -> HOME -> FREE: every cell holds the last value of its
\* history, and each update of a cell state wrote that state's successor.
C1_ClickCycles ==
    \A rc \in Cells(hist) :
        LET h == hist[rc[1]][rc[2]]
        IN  /\ grid[rc[1]][rc[2]] = Last(h)
            /\ \A i \in 1..(Len(h) - 1) :
                   h[i] \in CellStates => h[i + 1] = CycleSucc(h[i])

\* a cell seeded HOME has been clicked three times: all three steps of the cycle
C1_Witness ==
    \E rc \in Cells(hist) :
        hist[rc[1]][rc[2]] = <<HOME, FREE, OBSTACLE, HOME>>

\* C2 (as claimed): no cell of the editor's grid holds a value outside
\* {FREE, OBSTACLE, HOME}, whatever integers the grid file holds.
C2_ValuesInEnum ==
    \A rc \in Cells(grid) : grid[rc[1]][rc[2]] \in CellStates

\* C3 (as claimed): a left click on an in-bounds cell never fails on the
\* cell's current value.
C3_ClickNeverFails == ~raised

\* C4: the cycle has period exactly 3: a cell that held a cell state differs
\* from it after one and after two clicks on it, and holds it again after three.
C4_PeriodThree ==
    \A rc \in Cells(hist) :
        LET h == hist[rc[1]][rc[2]]
        IN  \A i \in 1..Len(h) :
                h[i] \in CellStates =>
                    /\ i + 1 <= Len(h) => h[i + 1] # h[i]
                    /\ i + 2 <= Len(h) => h[i + 2] # h[i]
                    /\ i + 3 <= Len(h) => h[i + 3] = h[i]

\* a cell seeded OBSTACLE is back at OBSTACLE after three clicks
C4_Witness ==
    \E rc \in Cells(hist) :
        LET h == hist[rc[1]][rc[2]]
        IN  Len(h) = 4 /\ h[1] = OBSTACLE /\ grid[rc[1]][rc[2]] = OBSTACLE

\* C5: round trip: right after the 's' command, loading the grid file gives
\* an array identical to the editor's grid, dimensions and cells.
C5_SaveLoadRoundTrip ==
    [][KeySave => load_grid(file') = grid']_vars

\* the file holds an edited grid with a two-digit value, and loads back equal
C5_Witness ==
    /\ Started
    /\ Clicks >= 1
    /\ \E rc \in Cells(grid) : grid[rc[1]][rc[2]] = 12
    /\ file.exists
    /\ load_grid(file) = grid
    /\ load_grid(file) # persisted

\* C6: clipping on seed: cell (r, c) of the seeded grid is persisted[r][c]
\* where the persisted grid has that cell and FREE elsewhere.
C6_SeedClips ==
    Started =>
        /\ DOMAIN grid = 1..overlay.grid_rows
        /\ \A r \in DOMAIN grid :
               /\ DOMAIN grid[r] = 1..overlay.grid_cols
               /\ \A c \in DOMAIN grid[r] :
                      grid[r][c] = IF r <= Len(persisted) /\ c <= Len(persisted[r])
                                   THEN persisted[r][c] ELSE FREE

\* a grid seeded from a persisted grid with more rows and a shorter first
\* row: a row is lost and a FREE cell is gained
C6_Witness ==
    /\ Started
    /\ Len(persisted) > overlay.grid_rows
    /\ Len(persisted[1]) = 1
    /\ overlay.grid_cols = 2
    /\ grid[1] = <<12, FREE>>

\* C7: the editor's grid is rectangular in every state from seeding on: it
\* has overlay.grid_rows rows of overlay.grid_cols cells.
C7_Rectangular ==
    Started =>
        /\ DOMAIN grid = 1..overlay.grid_rows
        /\ \A r \in DOMAIN grid : DOMAIN grid[r] = 1..overlay.grid_cols

\* a grid seeded from a ragged, larger persisted grid, edited and saved
C7_Witness ==
    /\ Started
    /\ Len(persisted) = 3
    /\ Len(persisted[1]) # Len(persisted[3])
    /\ Clicks >= 2
    /\ load_grid(file) = grid
    /\ overlay.grid_rows = 2 /\ overlay.grid_cols = 1

\* C8: the grid file changes only in the step that handles the 's' key.
C8_OnlySaveWrites ==
    [][file' # file => KeySave]_vars

\* the editor has quit after edits and the grid file is still missing
C8_Witness ==
    /\ pc = "done"
    /\ Clicks >= 1
    /\ ~file.exists

\* C9: handling a left click on in-bounds cell (row, col) changes no cell but
\* grid[row][col], and neither the grid's dimensions nor the grid path.
\* (A step that changes none of the three satisfies this whatever the click.)
C9_ClickOneCell ==
    [][(grid' # grid \/ grid_path' # grid_path \/ overlay' # overlay) =>
        \A x \in MouseXs, y \in MouseYs :
          (/\ _rectified_to_grid_cell(x, y, overlay) # None
           /\ _handle_mouse(EVENT_LBUTTONDOWN, x, y))
          => LET cell_pos == _rectified_to_grid_cell(x, y, overlay)
             IN  /\ DOMAIN grid' = DOMAIN grid
                 /\ \A r \in DOMAIN grid : DOMAIN grid'[r] = DOMAIN grid[r]
                 /\ \A rc \in Cells(grid) :
                        rc # <<cell_pos[1] + 1, cell_pos[2] + 1>>
                            => grid'[rc[1]][rc[2]] = grid[rc[1]][rc[2]]
                 /\ grid_path' = grid_path
                 /\ overlay' = overlay]_vars

\* one click on a 2 x 2 grid: one cell differs from its seeded value, the
\* cell below it and the others hold theirs
C9_Witness ==
    /\ Clicks = 1
    /\ overlay.grid_rows = 2 /\ overlay.grid_cols = 2
    /\ grid[1][1] # hist[1][1][1]
    /\ grid[2][1] = HOME
    /\ \A rc \in Cells(grid) \ {<<1, 1>>} :
           grid[rc[1]][rc[2]] = hist[rc[1]][rc[2]][1]

\* C10: a missing or corrupt grid file loads as an empty grid, and the
\* editor starts, without raising, on a grid of grid_rows x grid_cols FREE cells.
C10_MissingOrCorrupt ==
    (~file.exists \/ ~loads(file.text).ok) =>
        /\ pc = "start" => ENABLED StartEditor
        /\ Started =>
               /\ persisted = <<>>
               /\ grid = [r \in 1..overlay.grid_rows |->
                             [c \in 1..overlay.grid_cols |-> FREE]]

\* the editor has started on a 2 x 2 grid of FREE from a file cut short
C10_Witness ==
    /\ Started
    /\ file.exists
    /\ file.text = <<"[", "[", "1", ",">>
    /\ grid = << <<FREE, FREE>>, <<FREE, FREE>> >>

\* the rendering of a cell that the docstring of _format_grid_snapshot states
DocstringCell(cell) ==
    IF cell = HOME THEN <<GREEN, "H", RESET>>
    ELSE IF cell = OBSTACLE THEN <<ORANGE, "X", RESET>>
    ELSE <<".">>

\* C18: in the grid snapshot printed after a click, every HOME cell is 'H' in
\* green, every OBSTACLE cell is 'X' in orange/yellow and every FREE cell is
\* '.' in the default colour (grids of FREE, OBSTACLE and HOME cells).
C18_SnapshotColours ==
    (/\ console # <<>>
     /\ \A rc \in Cells(grid) : grid[rc[1]][rc[2]] \in CellStates)
    => console[2] =
           join("\n", [r \in DOMAIN grid |->
                          join(" ", [c \in DOMAIN grid[r] |-> DocstringCell(grid[r][c])])])

\* the events the loop handles other than 'q'
LoopEvent == HandleMouse \/ KeySave \/ KeyImage \/ KeyFullscreen \/ KeyOther

\* C14: the quit keystroke is the only way the event loop ends: 'q' exits the
\* loop without saving the grid and destroys the window, after it no event
\* is handled, and no other key press and no mouse event ends the loop.
C14_QuitOnlyExit ==
    /\ [][/\ KeyQuit => /\ pc' = "done"
                        /\ window' = "destroyed"
                        /\ file' = file
                        /\ grid' = grid
          /\ LoopEvent => pc' = "poll" /\ window' = "open"
          /\ (pc = "poll" /\ pc' # "poll") => KeyQuit]_vars
    /\ [](pc = "done" => ~ENABLED (LoopEvent \/ KeyQuit))

\* the editor has quit with an edited grid that was never saved, after an
\* 'i' and an 'f' that did not end the loop
C14_Witness ==
    /\ pc = "done"
    /\ window = "destroyed"
    /\ Clicks > 0
    /\ ~file.exists
    /\ image # _draw_grid_overlay([r \in DOMAIN hist |-> [c \in DOMAIN hist[r] |-> hist[r][c][1]]])
    /\ ~is_fullscreen

\* C17: a mouse event that is not an in-bounds left click (another event, or
\* a left click for which the cell lookup returns None) changes no cell of
\* the grid.
C17_OtherEventsKeepGrid ==
    [][grid' # grid =>
          \A event \in MouseEvents, x \in MouseXs, y \in MouseYs :
              (/\ event # EVENT_LBUTTONDOWN
                     \/ _rectified_to_grid_cell(x, y, overlay) = None
               /\ _handle_mouse(event, x, y))
              => grid' = grid]_vars

\* an edited grid on which a right click inside the arena and a left click
\* outside of it are both handled and leave every cell as it is
C17_Witness ==
    /\ pc = "poll"
    /\ Clicks > 0
    /\ overlay.grid_rows = 2 /\ overlay.grid_cols = 2
    /\ _rectified_to_grid_cell(0, 0, overlay) # None
    /\ _rectified_to_grid_cell(-1, 0, overlay) = None
    /\ ENABLED (_handle_mouse(EVENT_RBUTTONDOWN, 0, 0) /\ grid' = grid)
    /\ ENABLED (_handle_mouse(EVENT_LBUTTONDOWN, -1, 0) /\ grid' = grid)

\* the grid as it was seeded, and the in-bounds left clicks handled on a cell
SeededGrid == [r \in DOMAIN hist |-> [c \in DOMAIN hist[r] |-> hist[r][c][1]]]

ClicksOn(r, c) == Len(hist[r][c]) - 1

\* C19: from a seeded grid of values in {0, 1, 2}, each cell holds (its seeded
\* value + the number of in-bounds left clicks handled on it) mod 3, whatever
\* the order of the clicks and of the 's'/'i'/'f' key presses between them,
\* and that grid is what a save writes.
C19_OrderIndependent ==
    /\ []((/\ Started
           /\ \A rc \in Cells(SeededGrid) : SeededGrid[rc[1]][rc[2]] \in CellStates)
          => grid = [r \in DOMAIN hist |-> [c \in DOMAIN hist[r] |->
                        (SeededGrid[r][c] + ClicksOn(r, c)) % 3]])
    /\ [][KeySave => load_grid(file') = grid']_vars

\* two cells of one row clicked twice and once, with an 'f' and an 'i'
\* pressed on the way, and the result saved
C19_Witness ==
    /\ pc = "poll"
    /\ overlay.grid_cols = 2
    /\ ClicksOn(1, 1) = 2 /\ ClicksOn(1, 2) = 1
    /\ grid[1][1] = (SeededGrid[1][1] + 2) % 3
    /\ grid[1][2] = (SeededGrid[1][2] + 1) % 3
    /\ ~is_fullscreen
    /\ image = display
    /\ file.exists /\ load_grid(file) = grid
    /\ grid # persisted

\* C16: a missing calibration file is fatal: main raises FileNotFoundError
\* before the overlay is built, so the editor loop never starts, no window is
\* opened and the grid file is neither read nor written.
C16_MissingCalibrationFatal ==
    /\ [](~calib.exists =>
              /\ pc \in {"main", "FileNotFoundError"}
              /\ overlay = NoOverlay
              /\ window = "none"
              /\ persisted = <<>> /\ grid = <<>>
              /\ fetches = 0)
    /\ [][~calib.exists =>
              /\ file' = file
              /\ MainEntry => pc' = "FileNotFoundError"]_vars

\* main has raised FileNotFoundError next to a grid file that holds a grid
C16_Witness ==
    /\ ~calib.exists
    /\ pc = "FileNotFoundError"
    /\ file.exists /\ load_grid(file) # <<>>
    /\ persisted = <<>>
    /\ overlay = NoOverlay

\* C15: with a readable saved snapshot the camera is not contacted; with a
\* missing or unreadable one the frame is fetched from the camera exactly
\* once and written to the snapshot path, so that no later start contacts
\* the camera.
C15_SnapshotRecovery ==
    /\ [][StartEditor =>
              IF snapshot = "ok"
              THEN fetches' = fetches /\ pc' = "poll"
              ELSE /\ fetches' = fetches + 1
                   /\ pc' = "poll" => snapshot' = "ok"]_vars
    /\ [][snapshot = "ok" => snapshot' = "ok" /\ fetches' = fetches]_vars
    /\ [][~StartEditor => snapshot' = snapshot /\ fetches' = fetches]_vars

\* the second run of the editor, started from the snapshot that the first
\* run fetched: the camera was contacted once in all
C15_Witness ==
    /\ runs = 2
    /\ pc = "poll"
    /\ fetches = 1
    /\ snapshot = "ok"

\* the cells of a grid holding a value
CellsHolding(g, v) == {rc \in Cells(g) : g[rc[1]][rc[2]] = v}

\* a text of digits, a point and one digit, as the number of tenths
Tenths(text) ==
    LET n == Len(text)
        int_part == ParseDigits(SubSeq(text, 1, n - 2), 1, 0)
    IN  int_part.val * 10 + DigitVal(text[n])

\* the text is count / total * 100 to one decimal
IsPct(text, count, total) ==
    /\ Len(text) >= 3
    /\ text[Len(text) - 1] = "."
    /\ LET d == Tenths(text) * total - count * 1000
       IN  2 * d <= total /\ 2 * d >= -total

\* the 3 x 3 example: 2 obstacle cells, 1 home cell, 6 free cells
ExampleGrid ==
    << <<FREE, OBSTACLE, FREE>>, <<FREE, HOME, FREE>>, <<OBSTACLE, FREE, FREE>> >>

\* C11: get_map_info reports the rows and columns of the persisted grid,
\* total_cells = rows * cols, the numbers of cells holding 0, 1 and 2 (which
\* sum to total_cells when every cell is a cell state), and the percentages
\* printed from it are count / total * 100 to one decimal; the 3 x 3 example
\* gives 9, 6, 2, 1 and 66.7 / 22.2 / 11.1.
C11_MapInfoStatistics ==
    query.fn = "get_map_info" =>
        LET g == load_grid(file)
            info == query.result
        IN  /\ info.rows = Len(g)
            /\ \A r \in DOMAIN g : info.cols = Len(g[r])
            /\ info.total_cells = info.rows * info.cols
            /\ info.free_count = Cardinality(CellsHolding(g, FREE))
            /\ info.obstacle_count = Cardinality(CellsHolding(g, OBSTACLE))
            /\ info.home_count = Cardinality(CellsHolding(g, HOME))
            /\ SymbolsDefined(file) =>
                   info.free_count + info.obstacle_count + info.home_count
                       = info.total_cells
            /\ info.total_cells > 0 =>
                   /\ Len(query.out) = 3
                   /\ IsPct(query.out[1], info.free_count, info.total_cells)
                   /\ IsPct(query.out[2], info.obstacle_count, info.total_cells)
                   /\ IsPct(query.out[3], info.home_count, info.total_cells)
            /\ g = ExampleGrid =>
                   /\ info.total_cells = 9 /\ info.free_count = 6
                   /\ info.obstacle_count = 2 /\ info.home_count = 1
                   /\ query.out = << <<"6", "6", ".", "7">>, <<"2", "2", ".", "2">>,
                                     <<"1", "1", ".", "1">> >>

\* the statistics of the 3 x 3 example have been asked for
C11_Witness ==
    /\ query.fn = "get_map_info"
    /\ load_grid(file) = ExampleGrid
    /\ query.result.total_cells = 9
    /\ query.out[1] = <<"6", "6", ".", "7">>

\* C12: with no grid file, each query function returns an empty result (an
\* empty list, an empty string, zero total_cells and zero counts) and
\* neither it nor its caller raises.
C12_MissingFileEmptyResult ==
    (~file.exists /\ query.fn # "none") =>
        /\ ~query.raised
        /\ query.fn = "get_map_json" =>
               query.result = <<>> /\ query.out = <<"No JSON data found">>
        /\ query.fn = "get_map" =>
               query.result = <<>> /\ query.out = <<"No map data found">>
        /\ query.fn = "get_map_as_string" =>
               query.result = <<>> /\ query.out = <<"No map data found">>
        /\ query.fn = "get_map_info" =>
               /\ query.result.rows = 0 /\ query.result.cols = 0
               /\ query.result.total_cells = 0
               /\ query.result.free_count = 0
               /\ query.result.obstacle_count = 0
               /\ query.result.home_count = 0
               /\ query.out = <<>>

\* the statistics have been asked for with no grid file there
C12_Witness ==
    /\ ~file.exists
    /\ query.fn = "get_map_info"
    /\ query.result.total_cells = 0
    /\ ~query.raised

\* a call of the query API
QueryCall ==
    \/ test_get_map_json
    \/ test_get_map_custom_symbols
    \/ test_get_map_as_string_custom
    \/ test_get_map_info
    \/ example_raw_json

====
